---- MODULE Spec2Model ----
(***************************************************************************)
(* A model of the complecs entity-component-system runtime: the code the   *)
(* macros of src/src/macros.rs generate for a schema of component,         *)
(* process and entity kinds, instantiated with the schema of               *)
(* src/examples/main.rs.                                                   *)
(*                                                                         *)
(* The handle storage (froggy::Storage / froggy::StorageRc) and the        *)
(* traits module are not part of the sources at hand; they are modelled    *)
(* from the storage contract of the specification (a slot arena with       *)
(* generations and a free list).                                           *)
(***************************************************************************)
EXTENDS Integers, Sequences, FiniteSets, TLC

\* ------------------------------------------------------------------ bounds
MaxEntities == 2     \* entities alive at the same time
MaxAdds     == 3     \* calls of add_to in one behaviour
MaxRuns     == 2     \* process runs the program calls directly
MaxTicks    == 2     \* calls of Sim::update
MaxOrphans  == 1     \* component values inserted without an entity

\* ------------------------------------------------------- u32 (CAge values)
\* TLC's integers are 32-bit signed, so a u32 is kept as two 16-bit halves.
Half == 65536

U32(n) == [hi |-> n \div Half, lo |-> n % Half]

\* u32 * 2 overflows iff the doubled high half, plus the carry out of the
\* low half, leaves 16 bits.
OverflowsMul2(v) == 2 * v.hi + (2 * v.lo) \div Half >= Half

\* u32::wrapping_mul(v, 2): the product modulo 2^32.
WrappingMul2(v) ==
    [hi |-> (2 * v.hi + (2 * v.lo) \div Half) % Half, lo |-> (2 * v.lo) % Half]

Digits == <<"0", "1", "2", "3", "4", "5", "6", "7", "8", "9">>

\* Display for u32: the decimal digits, most significant first.
RECURSIVE U32ToString(_)
U32ToString(v) ==
    LET t == (v.hi % 10) * Half + v.lo
        q == [hi |-> v.hi \div 10, lo |-> t \div 10]
    IN  IF v.hi = 0 /\ v.lo < 10
        THEN Digits[v.lo + 1]
        ELSE U32ToString(q) \o Digits[(t % 10) + 1]

\* ------------------------------------------------------------------ inputs
\* The two entities of main, and one whose age does not fit a doubling.
Datas ==
    {[CName |-> "Jakob", CAge |-> U32(22)],
     [CName |-> "test",  CAge |-> U32(9001)],
     [CName |-> "test",  CAge |-> [hi |-> 32768, lo |-> 0]]}

LastNames == {"Erroinen", "Smith"}

\* ------------------------------------------------------------------ schema
\* components_and_store! { name: CName(String), age: CAge(u32) }
CompKinds == {"CName", "CAge"}

\* process_store! { print_info, double_age, pwln }
ProcKinds == {"PPrintInfo", "PDoubleAge", "PPrintWithLastName"}

\* The three process! declarations: mutable parameters first, then the
\* immutable ones.
ExampleProcs ==
    [PPrintInfo         |-> [muts |-> <<>>,       refs |-> <<"CName", "CAge">>],
     PDoubleAge         |-> [muts |-> <<"CAge">>, refs |-> <<>>],
     PPrintWithLastName |-> [muts |-> <<>>,       refs |-> <<"CName">>]]

\* entity! { EPlayer { name: CName, age: CAge } impl { ... } }
EPlayer ==
    [comps |-> <<"CName", "CAge">>,
     procs |-> <<"PPrintInfo", "PDoubleAge", "PPrintWithLastName">>]

ExampleSchema == [procs |-> ExampleProcs, entity |-> EPlayer]

\* The declarations of main.rs with a PDoubleAge that also takes the name:
\* `mut a age: &mut CAge, ref n name: &CName`, its body unchanged.
MixedSchema ==
    [procs  |-> [ExampleProcs EXCEPT
                   !.PDoubleAge = [muts |-> <<"CAge">>, refs |-> <<"CName">>]],
     entity |-> EPlayer]

\* The declarations of main.rs with an EPlayer that does not participate in
\* PPrintWithLastName: `impl { PPrintInfo, PDoubleAge }`.
PartialSchema ==
    [procs  |-> ExampleProcs,
     entity |-> [comps |-> EPlayer.comps,
                 procs |-> <<"PPrintInfo", "PDoubleAge">>]]

\* Declarations the compiler has to refuse.
ConflictSchema ==
    [procs  |-> [ExampleProcs EXCEPT
                   !.PDoubleAge = [muts |-> <<"CAge">>, refs |-> <<"CAge">>]],
     entity |-> EPlayer]

DuplicateSchema ==
    [procs  |-> [ExampleProcs EXCEPT
                   !.PPrintInfo = [muts |-> <<>>, refs |-> <<"CName", "CName">>]],
     entity |-> EPlayer]

MissingCompSchema ==
    [procs  |-> ExampleProcs,
     entity |-> [comps |-> <<"CAge">>, procs |-> EPlayer.procs]]

Schemas ==
    {ExampleSchema, MixedSchema, ConflictSchema, DuplicateSchema,
     MissingCompSchema}

Range(s) == {s[i] : i \in DOMAIN s}

NoDuplicates(s) == \A i, j \in DOMAIN s : s[i] = s[j] => i = j

\* The parameter list of a process: `mut` parameters, then `ref` parameters.
Params(pd) == pd.muts \o pd.refs

\* A check that looks for a repeated kind inside each list only.
HasArgPerList(pd) == NoDuplicates(pd.muts) /\ NoDuplicates(pd.refs)

\* process! emits one `impl HasArg<C> for P {}` per parameter; two impls for
\* the same component kind are conflicting implementations.
HasArg(pd) == NoDuplicates(Params(pd))

\* A bound on the mutable parameters only.
ProcArgsFromMutable(pd, ed) == Range(pd.muts) \subseteq Range(ed.comps)

\* ProcArgsFrom<E> is implemented for P only where E: HasComp<C> for every
\* parameter C of P, and CompRefs implements HasComp for the entity's own
\* component kinds only.
ProcArgsFrom(pd, ed) == Range(Params(pd)) \subseteq Range(ed.comps)

\* The schema compiles.
Compiles(sc) ==
    /\ \A p \in ProcKinds : HasArg(sc.procs[p])
    /\ NoDuplicates(sc.entity.comps)
    /\ NoDuplicates(sc.entity.procs)
    /\ \A j \in DOMAIN sc.entity.procs :
          ProcArgsFrom(sc.procs[sc.entity.procs[j]], sc.entity)

\* ----------------------------------------------------------------- storage
\* A handle storage: slots of (value, generation, occupied) and a free list
\* of the indices of unoccupied slots.  A handle is (index, generation).
EmptyStorage == [slots |-> <<>>, free |-> <<>>]

Handle(i, g) == [index |-> i, gen |-> g]

\* The handle denotes the current occupant of its slot.
IsValid(st, h) ==
    /\ h.index \in DOMAIN st.slots
    /\ st.slots[h.index].occupied
    /\ st.slots[h.index].gen = h.gen

\* An insert that numbers an appended slot by the length of the free list.
InsertHandleFromFree(st) ==
    IF st.free = <<>>
    THEN Handle(Len(st.free) + 1, 0)
    ELSE Handle(st.free[Len(st.free)], st.slots[st.free[Len(st.free)]].gen)

\* insert pops a free slot or appends a new one.
InsertHandle(st) ==
    IF st.free = <<>>
    THEN Handle(Len(st.slots) + 1, 0)
    ELSE Handle(st.free[Len(st.free)], st.slots[st.free[Len(st.free)]].gen)

Insert(st, v) ==
    LET h == InsertHandle(st)
        slot == [value |-> v, gen |-> h.gen, occupied |-> TRUE]
    IN  IF st.free = <<>>
        THEN [slots |-> Append(st.slots, slot), free |-> st.free]
        ELSE [slots |-> [st.slots EXCEPT ![h.index] = slot],
              free  |-> SubSeq(st.free, 1, Len(st.free) - 1)]

\* get / get_mut: the value, or InvalidHandle for a stale handle.
Get(st, h) ==
    IF IsValid(st, h)
    THEN [ok |-> TRUE, value |-> st.slots[h.index].value]
    ELSE [ok |-> FALSE, err |-> "InvalidHandle"]

\* A write through get_mut.
Set(st, h, v) ==
    IF IsValid(st, h)
    THEN [st EXCEPT !.slots[h.index].value = v]
    ELSE st

\* A remove that leaves the generation of the slot as it is.
RemoveSameGeneration(st, h) ==
    IF IsValid(st, h)
    THEN [slots |-> [st.slots EXCEPT ![h.index].occupied = FALSE],
          free  |-> Append(st.free, h.index)]
    ELSE st

\* remove frees the slot, bumps its generation and pushes it on the free
\* list; a stale handle changes nothing (InvalidHandle).
Remove(st, h) ==
    IF IsValid(st, h)
    THEN [slots |-> [st.slots EXCEPT ![h.index].occupied = FALSE,
                                     ![h.index].gen = h.gen + 1],
          free  |-> Append(st.free, h.index)]
    ELSE st

\* The occupied slot indices, the rows an iteration visits in index order.
Live(st) == {i \in DOMAIN st.slots : st.slots[i].occupied}

\* -------------------------------------------------------------------- state
VARIABLES
    schema,       \* the declared component, process and entity kinds
    checked,      \* overflow checks compiled in (debug profile) or not
    pc,           \* position of the program
    components,   \* Components: one storage per component kind
    processes,    \* Processes: one storage of ArgRefs per process kind
    entities,     \* Entities.player: Vec of ProcData
    data,         \* add_to: the Data being added
    comprefs,     \* add_to: the CompRefs built so far, in insertion order
    procdata,     \* add_to / remove: the ProcData tuple under work
    proc,         \* run: the running process
    ext,          \* run: the external argument
    locks,        \* run: storage accesses held, in acquisition order
    cursor,       \* run: slot index of the last row visited
    pending,      \* update: the runs still to make in this tick
    output,       \* lines printed since the last call from the idle program
    log,          \* events of the current (or last) operation, in order
    adds,         \* calls of add_to so far
    runs,         \* process runs called directly so far
    ticks,        \* calls of Sim::update so far
    issued,       \* history: the component handles insert returned, in order
    initial,      \* history: per entity record, the Data it was added with
    doubled,      \* history: completed runs of PDoubleAge
    before        \* history: the storages as they were when add_to was called

vars == <<schema, checked, pc, components, processes, entities, data, comprefs,
          procdata, proc, ext, locks, cursor, pending, output, log, adds, runs, ticks,
          issued, initial, doubled, before>>

world  == <<components, processes, entities>>
addfr  == <<data, comprefs, procdata>>
runfr  == <<proc, ext, locks, cursor>>
static == <<schema, checked>>
hist   == <<issued, initial, doubled, before>>

NoData == [c \in {} |-> 0]

NoSnapshot == [set |-> FALSE, components |-> <<>>, processes |-> <<>>]

InitWith(declared) ==
    /\ schema \in declared
    /\ checked \in BOOLEAN
    /\ pc = "declared"
    /\ components = [c \in CompKinds |-> EmptyStorage]
    /\ processes = [p \in ProcKinds |-> EmptyStorage]
    /\ entities = <<>>
    /\ data = NoData
    /\ comprefs = <<>>
    /\ procdata = <<>>
    /\ proc = "none"
    /\ ext = "none"
    /\ locks = <<>>
    /\ cursor = 0
    /\ pending = <<>>
    /\ output = <<>>
    /\ log = <<>>
    /\ adds = 0
    /\ runs = 0
    /\ ticks = 0
    /\ issued = <<>>
    /\ initial = <<>>
    /\ doubled = 0
    /\ before = NoSnapshot

Init == InitWith(Schemas)

\* Compilation of the declarations, then Sim::new(): a schema with
\* conflicting implementations or unsatisfied bounds yields no program.
Build ==
    /\ pc = "declared"
    /\ pc' = IF Compiles(schema) THEN "idle" ELSE "rejected"
    /\ UNCHANGED <<static, world, addfr, runfr, pending, output, log, adds,
                   runs, ticks, hist>>

\* ------------------------------------------------------------------ add_to
Entity == schema.entity

\* <CompRefs as HasComp<C>>::get: the handle recorded for component kind c.
HasCompGet(cr, c) == cr[CHOOSE i \in DOMAIN cr : cr[i].comp = c].h

\* from_entity taking every handle from the first slot, whatever the entity.
from_entity_first(pd, cr) == [k \in 1..Len(Params(pd)) |-> Handle(1, 0)]

\* from_entity listing the immutable parameters' handles first.
from_entity_refs_first(pd, cr) ==
    [k \in 1..Len(Params(pd)) |-> HasCompGet(cr, (pd.refs \o pd.muts)[k])]

\* ProcArgsFrom::from_entity: the handles of the mutable parameters in
\* declared order, then those of the immutable parameters.
from_entity(pd, cr) ==
    [k \in 1..Len(Params(pd)) |-> HasCompGet(cr, Params(pd)[k])]

Event(ev, kind, h, row, lines) ==
    [ev |-> ev, kind |-> kind, h |-> h, row |-> row, lines |-> lines]

NoHandle == Handle(0, 0)

\* Data::add_to is called on the idle program.
add_to(d) ==
    /\ pc = "idle"
    /\ pending = <<>>
    /\ adds < MaxAdds
    /\ Len(entities) < MaxEntities
    /\ data' = d
    /\ comprefs' = <<>>
    /\ procdata' = <<>>
    /\ pc' = "add_insert"
    /\ log' = <<>>
    /\ output' = <<>>
    /\ adds' = adds + 1
    /\ before' = [set |-> TRUE, components |-> components,
                  processes |-> processes]
    /\ UNCHANGED <<static, world, runfr, pending, runs, ticks, issued,
                   initial, doubled>>

\* One `get_mut_components(sim).write().insert(self.$comp_name)`, in the
\* order the entity declares its components.
add_to_insert ==
    /\ pc = "add_insert"
    /\ LET c == Entity.comps[Len(comprefs) + 1]
           h == InsertHandle(components[c])
       IN  /\ components' = [components EXCEPT ![c] = Insert(@, data[c])]
           /\ comprefs' = Append(comprefs, [comp |-> c, h |-> h])
           /\ log' = Append(log, Event("insert", c, h, <<>>, <<>>))
           /\ issued' = Append(issued, [kind |-> c, h |-> h])
           /\ pc' = IF Len(comprefs) + 1 = Len(Entity.comps)
                    THEN "add_subscribe" ELSE "add_insert"
    /\ UNCHANGED <<static, processes, entities, data, procdata, runfr,
                   pending, output, adds, runs, ticks, initial, doubled, before>>

\* A subscription that stores the row twice.
add_entity_twice(p, cr) ==
    Insert(Insert(processes[p], from_entity(schema.procs[p], cr)),
           from_entity(schema.procs[p], cr))

\* AddEntityToProcess::add_entity(sim, &components.clone()): the row built by
\* from_entity is inserted into the process's members.
add_entity(p, cr) == Insert(processes[p], from_entity(schema.procs[p], cr))

\* One element of the `entity` tuple, in the order of the impl list.
add_to_subscribe ==
    /\ pc = "add_subscribe"
    /\ LET p  == Entity.procs[Len(procdata) + 1]
           mh == InsertHandle(processes[p])
       IN  /\ processes' = [processes EXCEPT ![p] = add_entity(p, comprefs)]
           /\ procdata' = Append(procdata, mh)
           /\ log' = Append(log, Event("subscribe", p, mh,
                                       from_entity(schema.procs[p], comprefs),
                                       <<>>))
           /\ pc' = IF Len(procdata) + 1 = Len(Entity.procs)
                    THEN "add_push" ELSE "add_subscribe"
    /\ UNCHANGED <<static, components, entities, data, comprefs, runfr,
                   pending, output, adds, runs, ticks, hist>>

\* A record pushed without its last membership handle.
add_to_push_short ==
    /\ pc = "add_push"
    /\ entities' = Append(entities, SubSeq(procdata, 1, Len(procdata) - 1))
    /\ log' = Append(log, Event("push", "EPlayer", NoHandle, procdata, <<>>))
    /\ initial' = Append(initial, [data |-> data, doubled |-> doubled])
    /\ data' = NoData
    /\ comprefs' = <<>>
    /\ procdata' = <<>>
    /\ pc' = "idle"
    /\ UNCHANGED <<static, components, processes, runfr, pending, output,
                   adds, runs, ticks, issued, doubled, before>>

\* get_mut_entities(sim).push(entity)
add_to_push ==
    /\ pc = "add_push"
    /\ entities' = Append(entities, procdata)
    /\ log' = Append(log, Event("push", "EPlayer", NoHandle, procdata, <<>>))
    /\ initial' = Append(initial, [data |-> data, doubled |-> doubled])
    /\ data' = NoData
    /\ comprefs' = <<>>
    /\ procdata' = <<>>
    /\ pc' = "idle"
    /\ UNCHANGED <<static, components, processes, runfr, pending, output,
                   adds, runs, ticks, issued, doubled, before>>

\* --------------------------------------------------------------------- run
\* The external arguments a process declares (`ext last_name: &str`).
ExtArgs(p) == IF p = "PPrintWithLastName" THEN LastNames ELSE {"none"}

\* The process bodies of examples/main.rs, on the dereferenced arguments
\* (mutable first): the values written back through the mutable references,
\* the lines printed, and whether the body panics.

\* println!("{} is {} year(s) old", name, age)
PrintInfoBody(args) ==
    [panic  |-> FALSE, writes |-> <<>>,
     lines  |-> <<args[1] \o " is " \o U32ToString(args[2]) \o " year(s) old">>]

\* A body that adds 2 to the age.
DoubleAgeBodyAddsTwo(args) ==
    [panic  |-> FALSE,
     writes |-> <<[hi |-> (args[1].hi + (args[1].lo + 2) \div Half) % Half,
                   lo |-> (args[1].lo + 2) % Half]>>,
     lines  |-> <<>>]

\* *age *= 2: with overflow checks a product that does not fit panics,
\* without them it wraps.
DoubleAgeBody(args) ==
    IF checked /\ OverflowsMul2(args[1])
    THEN [panic |-> TRUE, writes |-> <<args[1]>>, lines |-> <<>>]
    ELSE [panic |-> FALSE, writes |-> <<WrappingMul2(args[1])>>, lines |-> <<>>]

\* A body that prints the last name before the name.
PrintWithLastNameBodySwapped(args, e) ==
    [panic  |-> FALSE, writes |-> <<>>,
     lines  |-> <<"Name: " \o e \o " " \o args[1]>>]

\* println!("Name: {} {}", name, last_name)
PrintWithLastNameBody(args, e) ==
    [panic  |-> FALSE, writes |-> <<>>,
     lines  |-> <<"Name: " \o args[1] \o " " \o e>>]

Body(p, args, e) ==
    CASE p = "PPrintInfo"         -> PrintInfoBody(args)
      [] p = "PDoubleAge"         -> DoubleAgeBody(args)
      [] p = "PPrintWithLastName" -> PrintWithLastNameBody(args, e)

\* $proc_id::run(sim, ext...) is called, by the idle program or as the next
\* run of the tick in progress.
run(p, e) ==
    /\ pc = "idle"
    /\ \/ /\ pending = <<>>
          /\ runs < MaxRuns
          /\ runs' = runs + 1
          /\ pending' = pending
          /\ output' = <<>>
       \/ /\ pending # <<>>
          /\ Head(pending) = [p |-> p, e |-> e]
          /\ runs' = runs
          /\ pending' = Tail(pending)
          /\ output' = output
    /\ proc' = p
    /\ ext' = e
    /\ locks' = <<>>
    /\ cursor' = 0
    /\ log' = <<Event("run", p, NoHandle, <<>>, <<>>)>>
    /\ pc' = IF Params(schema.procs[p]) = <<>> THEN "run_rows" ELSE "run_lock"
    /\ before' = NoSnapshot
    /\ UNCHANGED <<static, world, addfr, adds, ticks, issued, initial, doubled>>

\* An acquisition that takes the immutable accesses first.
LockModeReadFirst(pd, k) == IF k <= Len(pd.refs) THEN "read" ELSE "write"

\* The access mode of the k-th storage a run acquires.
LockMode(pd, k) == IF k <= Len(pd.muts) THEN "write" ELSE "read"

\* One `.write()` or `.read()` on a component storage: the mutable
\* parameters' storages first, then the immutable ones.
run_lock ==
    /\ pc = "run_lock"
    /\ LET pd == schema.procs[proc]
           k  == Len(locks) + 1
           c  == Params(pd)[k]
       IN  /\ locks' = Append(locks, [comp |-> c, mode |-> LockMode(pd, k)])
           /\ log' = Append(log, Event(LockMode(pd, k), c, NoHandle, <<>>, <<>>))
           /\ pc' = IF k = Len(Params(pd)) THEN "run_rows" ELSE "run_lock"
    /\ UNCHANGED <<static, world, addfr, proc, ext, cursor, pending, output,
                   adds, runs, ticks, hist>>

\* An iteration that passes over the row next to the last one visited.
RowsAfterSkipping(st, i) == {j \in Live(st) : j > i + 1}

\* The rows an iteration of the members still has to visit.
RowsAfter(st, i) == {j \in Live(st) : j > i}

\* An iteration that starts from the last row.
NextRowLast(st, i) ==
    CHOOSE j \in RowsAfter(st, i) : \A k \in RowsAfter(st, i) : j >= k

NextRow(st, i) ==
    CHOOSE j \in RowsAfter(st, i) : \A k \in RowsAfter(st, i) : j <= k

\* A write-back that stores the new value in every slot of the storage.
WriteBackAllSlots(pd, row, writes) ==
    [c \in CompKinds |->
        IF \E k \in DOMAIN pd.muts : pd.muts[k] = c
        THEN LET k == CHOOSE k \in DOMAIN pd.muts : pd.muts[k] = c
             IN  [components[c] EXCEPT !.slots =
                     [j \in DOMAIN @ |-> [@[j] EXCEPT !.value = writes[k]]]]
        ELSE components[c]]

\* A write-back that also blanks the values behind the immutable handles.
WriteBackBlanking(pd, row, writes) ==
    [c \in CompKinds |->
        IF \E k \in DOMAIN pd.muts : pd.muts[k] = c
        THEN LET k == CHOOSE k \in DOMAIN pd.muts : pd.muts[k] = c
             IN  Set(components[c], row[k], writes[k])
        ELSE IF \E k \in DOMAIN pd.refs : pd.refs[k] = c
        THEN LET k == CHOOSE k \in DOMAIN pd.refs : pd.refs[k] = c
             IN  Set(components[c], row[Len(pd.muts) + k],
                     IF c = "CName" THEN "" ELSE U32(0))
        ELSE components[c]]

\* The storages after the body wrote through its mutable references.
WriteBack(pd, row, writes) ==
    [c \in CompKinds |->
        IF \E k \in DOMAIN pd.muts : pd.muts[k] = c
        THEN LET k == CHOOSE k \in DOMAIN pd.muts : pd.muts[k] = c
             IN  Set(components[c], row[k], writes[k])
        ELSE components[c]]

\* A row loop that passes over a row with a stale handle.
run_row_skipping ==
    /\ pc = "run_rows"
    /\ RowsAfter(processes[proc], cursor) # {}
    /\ LET pd   == schema.procs[proc]
           i    == NextRow(processes[proc], cursor)
           row  == processes[proc].slots[i].value
           refs == [k \in DOMAIN row |-> Get(components[Params(pd)[k]], row[k])]
           mh   == Handle(i, processes[proc].slots[i].gen)
       IN  IF \E k \in DOMAIN refs : ~refs[k].ok
           THEN /\ pc' = "run_rows"
                /\ cursor' = i
                /\ UNCHANGED <<components, output, log>>
           ELSE LET b == Body(proc, [k \in DOMAIN refs |-> refs[k].value], ext)
                IN  /\ cursor' = i
                    /\ output' = output \o b.lines
                    /\ IF b.panic
                       THEN /\ pc' = "panicked"
                            /\ log' = Append(log, Event("panic", proc, mh, row, <<>>))
                            /\ UNCHANGED components
                       ELSE /\ pc' = "run_rows"
                            /\ log' = Append(log, Event("row", proc, mh, row, b.lines))
                            /\ components' = WriteBack(pd, row, b.writes)
    /\ UNCHANGED <<static, processes, entities, addfr, proc, ext, locks,
                   pending, adds, runs, ticks, hist>>

\* One iteration of the row loop: get_mut / get on each handle of the row,
\* then the body.
run_row ==
    /\ pc = "run_rows"
    /\ RowsAfter(processes[proc], cursor) # {}
    /\ LET pd   == schema.procs[proc]
           i    == NextRow(processes[proc], cursor)
           row  == processes[proc].slots[i].value
           refs == [k \in DOMAIN row |-> Get(components[Params(pd)[k]], row[k])]
           mh   == Handle(i, processes[proc].slots[i].gen)
       IN  IF \E k \in DOMAIN refs : ~refs[k].ok
           THEN /\ pc' = "panicked"
                /\ log' = Append(log, Event("panic", proc, mh, row, <<>>))
                /\ UNCHANGED <<components, output, cursor>>
           ELSE LET b == Body(proc, [k \in DOMAIN refs |-> refs[k].value], ext)
                IN  /\ cursor' = i
                    /\ output' = output \o b.lines
                    /\ IF b.panic
                       THEN /\ pc' = "panicked"
                            /\ log' = Append(log, Event("panic", proc, mh, row, <<>>))
                            /\ UNCHANGED components
                       ELSE /\ pc' = "run_rows"
                            /\ log' = Append(log, Event("row", proc, mh, row, b.lines))
                            /\ components' = WriteBack(pd, row, b.writes)
    /\ UNCHANGED <<static, processes, entities, addfr, proc, ext, locks,
                   pending, adds, runs, ticks, hist>>

\* The loop is over: the guards are dropped and run returns.
run_end ==
    /\ pc = "run_rows"
    /\ RowsAfter(processes[proc], cursor) = {}
    /\ locks' = <<>>
    /\ cursor' = 0
    /\ log' = Append(log, Event("release", proc, NoHandle, <<>>, <<>>))
    /\ doubled' = IF proc = "PDoubleAge" THEN doubled + 1 ELSE doubled
    /\ pc' = "idle"
    /\ UNCHANGED <<static, world, addfr, proc, ext, pending, output, adds, runs, ticks,
                   issued, initial, before>>

\* An update that doubles before it prints.
UpdateRunsDoubleFirst ==
    <<[p |-> "PDoubleAge", e |-> "none"],
      [p |-> "PPrintInfo", e |-> "none"],
      [p |-> "PPrintWithLastName", e |-> "Erroinen"]>>

\* Sim::update: PPrintInfo, PDoubleAge, PPrintWithLastName("Erroinen").
UpdateRuns ==
    <<[p |-> "PPrintInfo", e |-> "none"],
      [p |-> "PDoubleAge", e |-> "none"],
      [p |-> "PPrintWithLastName", e |-> "Erroinen"]>>

update ==
    /\ pc = "idle"
    /\ pending = <<>>
    /\ ticks < MaxTicks
    /\ ticks' = ticks + 1
    /\ pending' = UpdateRuns
    /\ output' = <<>>
    /\ log' = <<>>
    /\ before' = NoSnapshot
    /\ UNCHANGED <<static, pc, world, addfr, runfr, adds, runs, issued,
                   initial, doubled>>

\* ------------------------------------------------------------------ remove
\* Removal of an entity: its record is taken out of the entity collection,
\* every membership handle of the record is unsubscribed, and then the
\* component handles its rows held are removed from their storages.
remove(i) ==
    /\ pc = "idle"
    /\ pending = <<>>
    /\ i \in DOMAIN entities
    /\ procdata' = entities[i]
    /\ entities' = [j \in 1..(Len(entities) - 1) |->
                       IF j < i THEN entities[j] ELSE entities[j + 1]]
    /\ comprefs' = <<>>
    /\ log' = <<>>
    /\ output' = <<>>
    /\ pc' = "remove_unsub"
    /\ initial' = [j \in 1..(Len(initial) - 1) |->
                      IF j < i THEN initial[j] ELSE initial[j + 1]]
    /\ before' = IF i = Len(entities) /\ log # <<>> /\ log[Len(log)].ev = "push"
                 THEN before ELSE NoSnapshot
    /\ UNCHANGED <<static, components, processes, data, runfr, pending,
                   adds, runs, ticks, issued, doubled>>

\* The component handles of a row that are not yet in cr, appended to cr.
RECURSIVE Collect(_, _, _, _)
Collect(cr, pd, row, k) ==
    IF k > Len(row) THEN cr
    ELSE LET e == [comp |-> Params(pd)[k], h |-> row[k]]
         IN  Collect(IF e \in Range(cr) THEN cr ELSE Append(cr, e), pd, row, k + 1)

remove_unsub ==
    /\ pc = "remove_unsub"
    /\ LET p   == Entity.procs[Len(Entity.procs) - Len(procdata) + 1]
           mh  == Head(procdata)
           got == Get(processes[p], mh)
       IN  IF ~got.ok
           THEN /\ pc' = "panicked"
                /\ log' = Append(log, Event("panic", p, mh, <<>>, <<>>))
                /\ UNCHANGED <<processes, procdata, comprefs>>
           ELSE /\ processes' = [processes EXCEPT ![p] = Remove(@, mh)]
                /\ procdata' = Tail(procdata)
                /\ comprefs' = Collect(comprefs, schema.procs[p], got.value, 1)
                /\ log' = Append(log, Event("unsubscribe", p, mh, got.value, <<>>))
                /\ pc' = IF Tail(procdata) # <<>> THEN "remove_unsub"
                         ELSE IF comprefs' = <<>> THEN "idle"
                         ELSE "remove_release"
    /\ UNCHANGED <<static, components, entities, data, runfr, pending,
                   output, adds, runs, ticks, hist>>

remove_release ==
    /\ pc = "remove_release"
    /\ LET c == Head(comprefs).comp
           h == Head(comprefs).h
       IN  /\ components' = [components EXCEPT ![c] = Remove(@, h)]
           /\ log' = Append(log, Event("remove", c, h, <<>>, <<>>))
    /\ comprefs' = Tail(comprefs)
    /\ pc' = IF Tail(comprefs) = <<>> THEN "idle" ELSE "remove_release"
    /\ UNCHANGED <<static, processes, entities, data, procdata, runfr,
                   pending, output, adds, runs, ticks, hist>>

\* ---------------------------------------------------------- specifications
AddStep == add_to_insert \/ add_to_subscribe \/ add_to_push

RunStep == run_lock \/ run_row \/ run_end

RemoveStep == remove_unsub \/ remove_release

\* The program as the sources have it: entities are added and processes run.
Next ==
    \/ Build
    \/ \E d \in Datas : add_to(d)
    \/ AddStep
    \/ \E p \in ProcKinds : \E e \in ExtArgs(p) : run(p, e)
    \/ RunStep
    \/ update

Spec == Init /\ [][Next]_vars

\* Removal is followed on the declarations of main.rs.
InitLife == Init /\ schema = ExampleSchema

\* The program with entity removal.
NextLife ==
    \/ Next
    \/ \E i \in DOMAIN entities : remove(i)
    \/ RemoveStep

\* A caller removes a slot of a component storage (a public field of the
\* store) behind the back of the rows that refer to it.
storage_remove(c, i) ==
    /\ pc = "idle"
    /\ pending = <<>>
    /\ i \in Live(components[c])
    /\ components' = [components EXCEPT
                         ![c] = Remove(@, Handle(i, @.slots[i].gen))]
    /\ log' = <<Event("remove", c, Handle(i, components[c].slots[i].gen),
                      <<>>, <<>>)>>
    /\ output' = <<>>
    /\ before' = NoSnapshot
    /\ UNCHANGED <<static, pc, processes, entities, addfr, runfr, pending,
                   adds, runs, ticks, issued, initial, doubled>>

\* The program with a caller that breaks the add/remove symmetry.
NextStale ==
    \/ Next
    \/ \E c \in CompKinds : \E i \in Live(components[c]) : storage_remove(c, i)

SpecStale == InitLife /\ [][NextStale]_vars

\* The program when a run that was called keeps being executed: run is an
\* ordinary sequential function, nothing suspends it.  Followed on the
\* declarations of main.rs and on an entity that leaves a process out.
InitFair == InitWith({ExampleSchema, PartialSchema})

\* What a step of the row loop does to the position of the run.  run_row is
\* enabled exactly when RowStep is, and a step of run_row is a step of
\* RowStep that changes pc or cursor.
RowStep ==
    /\ pc = "run_rows"
    /\ RowsAfter(processes[proc], cursor) # {}
    /\ pc' \in {"run_rows", "panicked"}
    /\ cursor' \in {cursor, NextRow(processes[proc], cursor)}

SpecFair ==
    /\ InitFair
    /\ [][Next]_vars
    /\ WF_vars(run_lock)
    /\ WF_<<pc, cursor>>(RowStep)
    /\ WF_vars(run_end)

\* The value a caller stores without an entity.
OrphanValue(c) == IF c = "CName" THEN "nobody" ELSE U32(1)

\* The component values stored so far that belong to no entity.
Orphans ==
    LET n(c) == Len(components[c].slots)
    IN  n("CName") + n("CAge") - Len(Entity.comps) * Len(entities)

\* A caller inserts a component value into a component storage (a public
\* field of the store) without adding an entity.
storage_insert(c) ==
    /\ pc = "idle"
    /\ pending = <<>>
    /\ Orphans < MaxOrphans
    /\ components' = [components EXCEPT ![c] = Insert(@, OrphanValue(c))]
    /\ issued' = Append(issued, [kind |-> c, h |-> InsertHandle(components[c])])
    /\ log' = <<>>
    /\ output' = <<>>
    /\ before' = NoSnapshot
    /\ UNCHANGED <<static, pc, processes, entities, addfr, runfr, pending,
                   adds, runs, ticks, initial, doubled>>

\* The program with a caller that also uses the component storages directly,
\* so that the storages of different kinds issue different handles.
NextDirect ==
    \/ Next
    \/ \E c \in CompKinds : storage_insert(c)

SpecDirect == Init /\ [][NextDirect]_vars

SpecLife == InitLife /\ [][NextLife]_vars

\* ------------------------------------------------------------------ claims
\* The positions of the log that hold an event of the given name.
Events(ev) == {a \in DOMAIN log : log[a].ev = ev}

\* The body was invoked on the row with membership handle mh of process p,
\* at position a of the log.
Visited(a, p, mh) == log[a].ev = "row" /\ log[a].kind = p /\ log[a].h = mh

\* C1 - Row-order determinism: of two entities of the same kind, the one
\* whose add completed first has its row visited first by every run of every
\* process both participate in, whatever the number of earlier runs.
C1_RowOrder ==
    \A i, j \in DOMAIN entities : i < j =>
        \A k \in DOMAIN Entity.procs : \A b \in DOMAIN log :
            Visited(b, Entity.procs[k], entities[j][k]) =>
                \E a \in 1..(b - 1) : Visited(a, Entity.procs[k], entities[i][k])

\* A later run (PDoubleAge has completed twice before) has visited the rows
\* of two entities.
C1_Witness ==
    /\ pc = "idle"
    /\ doubled >= 2
    /\ Len(entities) = 2
    /\ \E a, b \in DOMAIN log : \E k \in DOMAIN Entity.procs :
          /\ a < b
          /\ Visited(a, Entity.procs[k], entities[1][k])
          /\ Visited(b, Entity.procs[k], entities[2][k])

\* The subscribe events of the log up to position b.
SubscribesUpTo(b) == {a \in 1..b : log[a].ev = "subscribe"}

\* C2 - Registration order of add: every component value is inserted before
\* the first subscribe; the entity is subscribed to its processes in
\* declaration order, each stored row holding, parameter by parameter, the
\* handle this same add was issued for the parameter's component kind; the
\* record is stored last, made of the membership handles of this add; and
\* while the component inserts are under way no membership row refers to
\* the entity.
C2_Registration ==
    (log # <<>> /\ log[1].ev = "insert") =>
      /\ \A b \in Events("subscribe") :
            LET p   == log[b].kind
                pd  == schema.procs[p]
                row == Get(processes[p], log[b].h)
            IN  /\ \A a \in Events("insert") : a < b
                /\ {log[a].kind : a \in Events("insert")} = Range(Entity.comps)
                /\ Cardinality(Events("insert")) = Len(Entity.comps)
                /\ p = Entity.procs[Cardinality(SubscribesUpTo(b))]
                /\ row.ok
                /\ Len(row.value) = Len(Params(pd))
                /\ \A m \in DOMAIN row.value :
                      \E a \in Events("insert") :
                          /\ log[a].kind = Params(pd)[m]
                          /\ log[a].h = row.value[m]
      /\ \A b \in Events("push") :
            /\ b = Len(log)
            /\ Cardinality(Events("subscribe")) = Len(Entity.procs)
            /\ entities # <<>>
            /\ entities[Len(entities)] = log[b].row
            /\ \A k \in DOMAIN log[b].row :
                  \E a \in Events("subscribe") :
                      /\ Cardinality(SubscribesUpTo(a)) = k
                      /\ log[a].h = log[b].row[k]
      /\ Events("push") = {} =>
            \A i \in DOMAIN entities : \A a \in Events("subscribe") :
                \A k \in DOMAIN entities[i] :
                    Entity.procs[k] = log[a].kind => entities[i][k] # log[a].h
      /\ Events("subscribe") = {} =>
            \A p \in ProcKinds : \A i \in Live(processes[p]) :
                \A m \in DOMAIN processes[p].slots[i].value :
                    \A a \in Events("insert") :
                        ~ /\ log[a].kind = Params(schema.procs[p])[m]
                          /\ log[a].h = processes[p].slots[i].value[m]

\* The second entity has been added: its inserts, its three subscribes and
\* the push of its record are in the log.
C2_Witness ==
    /\ pc = "idle"
    /\ Len(entities) = 2
    /\ log # <<>>
    /\ log[Len(log)].ev = "push"
    /\ Cardinality(Events("subscribe")) = 3

\* The last completed operation is the removal of the record that the
\* operation just before it, an add, had stored.
AddThenRemove ==
    /\ pc = "idle"
    /\ before.set
    /\ log # <<>>
    /\ log[1].ev = "unsubscribe"

LiveCount(st) == Cardinality(Live(st))

FreeAfterRoundTrip(st) ==
    IF st.free = <<>> THEN <<Len(st.slots) + 1>> ELSE st.free

C4_NoDanglingRows ==
    \A p \in ProcKinds : \A i \in Live(processes[p]) :
        LET row == processes[p].slots[i].value
        IN  \A m \in DOMAIN row :
                IsValid(components[Params(schema.procs[p])[m]], row[m])

\* Inside a remove, after a component slot was freed, while another entity
\* still has its rows.
C4_Witness ==
    /\ pc = "remove_release"
    /\ Events("remove") # {}
    /\ Len(entities) = 1
    /\ \A p \in ProcKinds : Live(processes[p]) # {}

\* Two handles of one component storage, issued in this order for the same
\* slot index.
Reissued(a, b) ==
    /\ a < b
    /\ issued[a].kind = issued[b].kind
    /\ issued[a].h.index = issued[b].h.index

\* A value no entity is added with, to try a write through a handle.
Probe(c) == IF c = "CAge" THEN U32(0) ELSE ""

\* C5 - Generational safety: a handle issued for a slot index that an
\* earlier handle had has a strictly higher generation; the earlier handle
\* is stale: get and get_mut on it fail with InvalidHandle and a write
\* through it changes nothing; and the handle an insert returns reads the
\* inserted value.
C5_GenerationalSafety ==
    /\ \A a, b \in DOMAIN issued : Reissued(a, b) =>
          LET st == components[issued[a].kind]
          IN  /\ issued[b].h.gen > issued[a].h.gen
              /\ Get(st, issued[a].h) = [ok |-> FALSE, err |-> "InvalidHandle"]
              /\ Set(st, issued[a].h, Probe(issued[a].kind)) = st
    /\ pc \in {"add_insert", "add_subscribe", "add_push"} =>
          \A k \in DOMAIN comprefs :
              Get(components[comprefs[k].comp], comprefs[k].h)
                  = [ok |-> TRUE, value |-> data[comprefs[k].comp]]

\* Value B has just been inserted into the slot a removed value A had.
C5_Witness ==
    /\ pc = "add_subscribe"
    /\ \E a, b \in DOMAIN issued :
          /\ Reissued(a, b)
          /\ b = Len(issued)
          /\ \E k \in DOMAIN comprefs : comprefs[k].h = issued[b].h

\* The handles insert has returned are pairwise different.
UniqueHandles ==
    \A a, b \in DOMAIN issued :
        (a # b /\ issued[a].kind = issued[b].kind) => issued[a].h # issued[b].h

\* An insert keeps every handle issued before it valid, with its value.
InsertPreserves ==
    pc = "add_insert" =>
        \A a \in DOMAIN issued :
            LET c == issued[a].kind
                h == issued[a].h
            IN  IsValid(components[c], h) =>
                    /\ IsValid(components'[c], h)
                    /\ Get(components'[c], h) = Get(components[c], h)

\* C6 - Handle uniqueness: the handles returned by a sequence of inserts
\* into one component storage, none removed in between, are pairwise
\* different, and an insert neither invalidates a handle issued before nor
\* changes the value it refers to.
C6_HandleUniqueness == []UniqueHandles /\ [][InsertPreserves]_vars

\* The fourth insert of two adds: both storages hold an earlier handle.
C6_Witness ==
    /\ pc = "add_subscribe"
    /\ Len(issued) = 4
    /\ Len(entities) = 1

\* No program was built: nothing was added or run, and the world is empty.
NoWorld ==
    /\ pc \in {"declared", "rejected"}
    /\ adds = 0 /\ runs = 0 /\ ticks = 0
    /\ log = <<>> /\ output = <<>>
    /\ entities = <<>>
    /\ \A c \in CompKinds : components[c] = EmptyStorage
    /\ \A p \in ProcKinds : processes[p] = EmptyStorage

\* The process declaration lists one component kind twice, as mutable and
\* immutable parameter or twice in the same class.
ListsTwice(pd) ==
    \E i, j \in DOMAIN Params(pd) : i # j /\ Params(pd)[i] = Params(pd)[j]

\* C7 - Rejection of conflicting access: with a process declaration that
\* lists a component kind twice, the declarations are rejected; no world
\* exists and no run is ever started.
C7_ConflictRejected ==
    (\E p \in ProcKinds : ListsTwice(schema.procs[p])) => NoWorld

\* The declaration with `mut a: &mut CAge, ref b: &CAge` was rejected.
C7_Witness ==
    /\ pc = "rejected"
    /\ schema.procs["PDoubleAge"].muts = <<"CAge">>
    /\ schema.procs["PDoubleAge"].refs = <<"CAge">>

\* The entity kind participates in a process of which it does not own
\* every parameter's component kind.
LacksComponent(sc) ==
    \E k \in DOMAIN sc.entity.procs :
        \E m \in DOMAIN Params(sc.procs[sc.entity.procs[k]]) :
            \A n \in DOMAIN sc.entity.comps :
                sc.entity.comps[n] # Params(sc.procs[sc.entity.procs[k]])[m]

\* C8 - Entity-kind participation check: with an entity kind that
\* participates in a process it lacks a component for, the declarations
\* are rejected and no add is ever executed.
C8_ParticipationChecked == LacksComponent(schema) => NoWorld

\* The declaration of an EPlayer without a name was rejected.
C8_Witness ==
    /\ pc = "rejected"
    /\ schema.entity.comps = <<"CAge">>
    /\ "PPrintWithLastName" \in Range(schema.entity.procs)

\* The position of a process in the impl list of the entity kind.
ProcIndex(p) == CHOOSE k \in DOMAIN Entity.procs : Entity.procs[k] = p

\* The age stored for the i-th entity, read through its PDoubleAge row.
AgeOf(i) ==
    LET row == Get(processes["PDoubleAge"], entities[i][ProcIndex("PDoubleAge")])
    IN  Get(components["CAge"], row.value[1]).value

RECURSIVE Times2(_, _)
Times2(v, n) == IF n = 0 THEN v ELSE Times2(WrappingMul2(v), n - 1)

\* A run of PDoubleAge is about to visit a row.
DoubleAgeRowStep ==
    /\ pc = "run_rows"
    /\ proc = "PDoubleAge"
    /\ RowsAfter(processes[proc], cursor) # {}

\* The handle of the age the run is about to visit.
AgeHandleVisited ==
    processes[proc].slots[NextRow(processes[proc], cursor)].value[1]

\* C9 as stated - Doubling: every row a run of PDoubleAge visits has its
\* stored value multiplied by 2 as a 32-bit unsigned value.
C9_DoublesModulo ==
    [][DoubleAgeRowStep =>
          Get(components'["CAge"], AgeHandleVisited).value
              = WrappingMul2(Get(components["CAge"], AgeHandleVisited).value)]_vars

\* Outside a run of PDoubleAge, every entity holds its initial age doubled
\* once per run of PDoubleAge completed since its add: 22, 44, 88.
DoubledPerRun ==
    (pc # "panicked" /\ ~(pc \in {"run_lock", "run_rows"} /\ proc = "PDoubleAge"))
      => \A i \in DOMAIN entities :
            LET n == doubled - initial[i].doubled
            IN  /\ AgeOf(i) = Times2(initial[i].data["CAge"], n)
                /\ initial[i].data["CAge"] = U32(22) =>
                      /\ n = 0 => AgeOf(i) = U32(22)
                      /\ n = 1 => AgeOf(i) = U32(44)
                      /\ n = 2 => AgeOf(i) = U32(88)

\* A visited row is doubled modulo 2^32, unless the product does not fit
\* and overflow checks are on: then the run panics and the value stays.
DoublesOrPanics ==
    DoubleAgeRowStep =>
        LET old == Get(components["CAge"], AgeHandleVisited).value
        IN  IF checked /\ (old.hi >= Half \div 2)
            THEN pc' = "panicked" /\ components' = components
            ELSE /\ pc' = "run_rows"
                 /\ Get(components'["CAge"], AgeHandleVisited).value
                        = WrappingMul2(old)

\* C9 as amended - Doubling: 22 becomes 44 after one run of PDoubleAge and
\* 88 after two; each completed run multiplies every subscribed entity's
\* value by 2 exactly once; a product that does not fit 32 bits is stored
\* modulo 2^32 by a build without overflow checks and makes the run panic at
\* that row in a build with them.
C9_Doubling == []DoubledPerRun /\ [][DoublesOrPanics]_vars

\* The entity added with 22 holds 88 after two runs of PDoubleAge.
C9_Witness ==
    /\ pc = "idle"
    /\ \E i \in DOMAIN entities :
          /\ initial[i].data["CAge"] = U32(22)
          /\ doubled - initial[i].doubled = 2
          /\ AgeOf(i) = U32(88)

\* The body of PPrintWithLastName, called with "Erroinen", printed exactly
\* "Name: Jakob Erroinen" for the entity added as ("Jakob", 22).
JakobLine ==
    ext = "Erroinen" =>
        \A b \in DOMAIN log : \A i \in DOMAIN entities :
            ( /\ Visited(b, "PPrintWithLastName",
                         entities[i][ProcIndex("PPrintWithLastName")])
              /\ initial[i].data = [CName |-> "Jakob", CAge |-> U32(22)] )
            => log[b].lines = <<"Name: Jakob Erroinen">>

\* A step of a run leaves every storage alone that the process does not
\* declare as mutable.
RunFrame ==
    pc \in {"run_lock", "run_rows"} =>
        \A c \in CompKinds :
            (\A m \in DOMAIN schema.procs[proc].muts :
                 schema.procs[proc].muts[m] # c)
            => components'[c] = components[c]

\* C10 - Cross-component isolation: every run of PPrintWithLastName with
\* "Erroinen" prints exactly "Name: Jakob Erroinen" for the entity
\* ("Jakob", 22), however often its age was doubled, and a run never
\* changes a component value the process does not declare as mutable.
C10_Isolation == []JakobLine /\ [][RunFrame]_vars

\* The line was printed after the entity's age had been doubled twice.
C10_Witness ==
    /\ pc = "idle"
    /\ ext = "Erroinen"
    /\ \E b \in DOMAIN log : \E i \in DOMAIN entities :
          /\ Visited(b, "PPrintWithLastName",
                     entities[i][ProcIndex("PPrintWithLastName")])
          /\ initial[i].data = [CName |-> "Jakob", CAge |-> U32(22)]
          /\ AgeOf(i) = U32(88)
          /\ log[b].lines = <<"Name: Jakob Erroinen">>

RowsHoldInserted ==
    \A b \in Events("push") : \A a \in Events("insert") :
        \E k \in DOMAIN log[b].row :
            LET pd  == schema.procs[Entity.procs[k]]
                row == Get(processes[Entity.procs[k]], log[b].row[k])
            IN  /\ row.ok
                /\ \E m \in DOMAIN row.value :
                      /\ Params(pd)[m] = log[a].kind
                      /\ row.value[m] = log[a].h

WritesHeld == Cardinality({k \in DOMAIN locks : locks[k].mode = "write"})

\* The events of the log that process a row.
RowEvents == Events("row") \cup Events("panic")

\* C12 - Lock order of a run: the accesses held are the exclusive accesses
\* to the storages of the mutable parameters, in declared order, followed
\* by the shared accesses to the storages of the immutable parameters, in
\* declared order, the first shared access taken after the last exclusive
\* one; no storage is held twice; a row is processed only with every access
\* held; and nothing is held once the run has returned.
C12_LockOrder ==
    /\ pc \in {"run_lock", "run_rows"} =>
          LET pd == schema.procs[proc]
          IN  /\ WritesHeld <= Len(pd.muts)
              /\ Len(locks) - WritesHeld <= Len(pd.refs)
              /\ Len(locks) > WritesHeld => WritesHeld = Len(pd.muts)
              /\ \A k \in DOMAIN locks :
                    IF k <= WritesHeld
                    THEN locks[k] = [comp |-> pd.muts[k], mode |-> "write"]
                    ELSE locks[k] = [comp |-> pd.refs[k - WritesHeld],
                                     mode |-> "read"]
              /\ \A a, b \in DOMAIN locks :
                    a # b => locks[a].comp # locks[b].comp
              /\ RowEvents # {} =>
                    Len(locks) = Len(pd.muts) + Len(pd.refs)
              /\ \A b \in RowEvents :
                    \A a \in Events("write") \cup Events("read") : a < b
    /\ pc = "idle" =>
          /\ locks = <<>>
          /\ \A a \in Events("release") : a = Len(log)

\* A process with a mutable and an immutable parameter has processed a row
\* holding the exclusive access it took first and the shared one.
C12_Witness ==
    /\ pc = "run_rows"
    /\ locks = <<[comp |-> "CAge", mode |-> "write"],
                 [comp |-> "CName", mode |-> "read"]>>
    /\ Events("row") # {}

\* Row i of process p holds a component handle its storage no longer honours.
StaleRow(p, i) ==
    LET row == processes[p].slots[i].value
    IN  \E k \in DOMAIN row :
            LET st == components[Params(schema.procs[p])[k]]
            IN  ~(/\ row[k].index \in DOMAIN st.slots
                  /\ st.slots[row[k].index].occupied
                  /\ st.slots[row[k].index].gen = row[k].gen)

\* The row loop stands before a stale row.
AtStaleRow ==
    /\ pc = "run_rows"
    /\ \E i \in RowsAfter(processes[proc], cursor) :
           /\ \A j \in RowsAfter(processes[proc], cursor) : i <= j
           /\ StaleRow(proc, i)

\* C13: a run that meets a row with a stale component handle aborts: the
\* step taken at that row ends the program in the failed state, with no value
\* of any storage changed, nothing printed and no further row visited, and
\* nothing runs after the failure.
C13_StaleRowAborts ==
    [][/\ AtStaleRow => /\ pc' = "panicked"
                        /\ components' = components
                        /\ processes' = processes
                        /\ output' = output
                        /\ cursor' = cursor
       /\ pc # "panicked"]_vars

\* A run failed at a stale row whose slot has a new occupant, with a further
\* row behind it.
C13_Witness ==
    /\ pc = "panicked"
    /\ log[Len(log)].ev = "panic"
    /\ StaleRow(proc, log[Len(log)].h.index)
    /\ \E k \in DOMAIN log[Len(log)].row :
           LET st == components[Params(schema.procs[proc])[k]]
               h  == log[Len(log)].row[k]
           IN  st.slots[h.index].occupied /\ st.slots[h.index].gen # h.gen
    /\ RowsAfter(processes[proc], log[Len(log)].h.index) # {}

\* The runs of one tick, in the order of Sim::update.
TickRuns == <<"PPrintInfo", "PDoubleAge", "PPrintWithLastName">>

\* The runs of the tick in progress that are still to be made.
TickRest == [k \in DOMAIN pending |-> pending[k].p]

\* A call of update schedules the three runs in order; while runs of a tick
\* are outstanding the idle program starts the next of them and nothing
\* else; a run returns only when no row is left.
TickStep ==
    /\ ticks' # ticks => /\ pc = "idle"
                         /\ pending = <<>>
                         /\ [k \in DOMAIN pending' |-> pending'[k].p] = TickRuns
                         /\ pending'[3].e = "Erroinen"
    /\ (pc = "idle" /\ pending # <<>>) =>
           /\ pc' \in {"run_lock", "run_rows"}
           /\ proc' = Head(pending).p
           /\ ext' = Head(pending).e
           /\ pending' = Tail(pending)
           /\ world' = world
    /\ (pc = "run_rows" /\ pc' = "idle") =>
           /\ RowsAfter(processes[proc], cursor) = {}
           /\ {log[b].h.index : b \in Events("row")} = Live(processes[proc])
    /\ pc # "idle" => pending' = pending

\* The run of PPrintInfo of tick number `ticks` is under way or just over.
InTickPrintInfo ==
    /\ pc \in {"run_rows", "idle"}
    /\ proc = "PPrintInfo"
    /\ TickRest = <<"PDoubleAge", "PPrintWithLastName">>

\* PPrintInfo of tick k printed, for every entity that was added before the
\* first run of PDoubleAge, its age doubled k - 1 times, when PDoubleAge ran
\* in ticks only.
TickObserves ==
    (InTickPrintInfo /\ doubled = ticks - 1) =>
        \A b \in Events("row") : \A i \in DOMAIN entities :
            ( /\ log[b].h = entities[i][ProcIndex("PPrintInfo")]
              /\ initial[i].doubled = 0 )
            => log[b].lines =
                   <<initial[i].data["CName"] \o " is "
                       \o U32ToString(Times2(initial[i].data["CAge"], ticks - 1))
                       \o " year(s) old">>

TupleOrder ==
    \A b \in Events("subscribe") :
        LET pd  == schema.procs[log[b].kind]
            row == log[b].row
            InsertedFor(c, h) ==
                \E a \in Events("insert") : log[a].kind = c /\ log[a].h = h
        IN  /\ Len(row) = Len(pd.muts) + Len(pd.refs)
            /\ \A k \in DOMAIN pd.muts : InsertedFor(pd.muts[k], row[k])
            /\ \A k \in DOMAIN pd.refs :
                   InsertedFor(pd.refs[k], row[Len(pd.muts) + k])

\* The age the i-th entity holds: the age it was added with, doubled once
\* per run of PDoubleAge completed since.
OwnAge(i) == Times2(initial[i].data["CAge"], doubled - initial[i].doubled)

\* The printing bodies received, at the row of an entity, the name and the
\* age of that entity (the age as the runs of PDoubleAge have left it).
BodyGetsOwnValues ==
    \A b \in Events("row") : \A i \in DOMAIN entities :
        log[b].h = entities[i][ProcIndex(log[b].kind)] =>
            /\ log[b].kind = "PPrintInfo" =>
                   log[b].lines = <<initial[i].data["CName"] \o " is "
                                      \o U32ToString(OwnAge(i))
                                      \o " year(s) old">>
            /\ log[b].kind = "PPrintWithLastName" =>
                   log[b].lines = <<"Name: " \o initial[i].data["CName"]
                                      \o " " \o ext>>

\* C15 - Handle-to-storage matching: the row from_entity builds lists the
\* handles of the mutable parameters in declared order, then those of the
\* immutable parameters; the run dereferences each of them in the storage
\* that issued it, so the body receives the values of the entity owning the
\* row - also when the storages of different kinds issue different handles.
C15_HandleMatching == TupleOrder /\ BodyGetsOwnValues

\* A process with a mutable and an immutable parameter was subscribed with
\* two different handles, and a later PPrintInfo printed the doubled age of
\* the entity from storages whose handles differ.
C15_Witness ==
    /\ pc = "idle"
    /\ schema = MixedSchema
    /\ Orphans = 1
    /\ doubled = 1
    /\ \E i \in DOMAIN entities :
          /\ initial[i].doubled = 0
          /\ LET row == Get(processes["PDoubleAge"],
                            entities[i][ProcIndex("PDoubleAge")]).value
             IN  Len(row) = 2 /\ row[1] # row[2]
          /\ \E b \in Events("row") :
                /\ log[b].kind = "PPrintInfo"
                /\ log[b].h = entities[i][ProcIndex("PPrintInfo")]
                /\ log[b].lines = <<"Jakob is 44 year(s) old">>

\* A run is under way.
Running == pc \in {"run_lock", "run_rows"}

\* The entity records subscribed to process p.
Subscribed(p) ==
    {i \in DOMAIN entities : \E k \in DOMAIN Entity.procs : Entity.procs[k] = p}

\* The membership handle of p in the record of entity i.
MemberOf(p, i) ==
    entities[i][CHOOSE k \in DOMAIN Entity.procs : Entity.procs[k] = p]

\* No row is visited twice, every visited row is the row of a subscribed
\* entity, and PPrintWithLastName printed every row with the external
\* argument of the run.
OncePerRow ==
    /\ \A a, b \in Events("row") : log[a].h = log[b].h => a = b
    /\ \A b \in Events("row") :
          /\ log[b].kind = proc
          /\ \E i \in Subscribed(proc) :
                /\ MemberOf(proc, i) = log[b].h
                /\ proc = "PPrintWithLastName" =>
                       log[b].lines = <<"Name: " \o initial[i].data["CName"]
                                          \o " " \o ext>>

\* A run that returned has visited the row of every subscribed entity.
EveryRow ==
    (log # <<>> /\ log[Len(log)].ev = "release") =>
        /\ \A i \in Subscribed(proc) :
               \E b \in Events("row") : log[b].h = MemberOf(proc, i)
        /\ Cardinality(Events("row")) = Cardinality(Subscribed(proc))
        /\ Cardinality({j \in DOMAIN processes[proc].slots :
                           processes[proc].slots[j].occupied})
               = Cardinality(Subscribed(proc))

\* During a run the table, the process and the external argument stay.
RunKeeps ==
    (Running /\ pc' # "panicked") =>
        /\ processes' = processes
        /\ proc' = proc
        /\ ext' = ext

\* A run fails only in the body of PDoubleAge, on an age whose double does
\* not fit 32 bits, in a build with overflow checks.
FailsOnOverflowOnly ==
    pc = "panicked" =>
        /\ checked
        /\ proc = "PDoubleAge"
        /\ log[Len(log)].ev = "panic"
        /\ LET st == components["CAge"]
               h  == log[Len(log)].row[1]
           IN  st.slots[h.index].value.hi >= Half \div 2

Occupied(st) == Cardinality({j \in DOMAIN st.slots : st.slots[j].occupied})

\* No add is under way.
BetweenAdds == pc \in {"idle", "run_lock", "run_rows", "panicked"}

\* C17 - Row-count invariant: after any sequence of adds and runs, the table
\* of every process the entity kind participates in has one row per added
\* entity and the table of any other process has none; every component
\* storage the kind owns has one live slot per added entity; and the entity
\* collection has one record per add.
C17_RowCounts ==
    BetweenAdds =>
        /\ \A p \in ProcKinds :
               Occupied(processes[p]) =
                   IF \E k \in DOMAIN Entity.procs : Entity.procs[k] = p
                   THEN adds ELSE 0
        /\ \A c \in CompKinds :
               Occupied(components[c]) =
                   IF \E k \in DOMAIN Entity.comps : Entity.comps[k] = c
                   THEN adds ELSE 0
        /\ Len(entities) = adds

\* Two entities were added, with runs before and after the second add, to a
\* kind that leaves PPrintWithLastName out.
C17_Witness ==
    /\ pc = "idle"
    /\ schema = PartialSchema
    /\ adds = 2
    /\ Occupied(processes["PPrintInfo"]) = 2
    /\ Occupied(processes["PPrintWithLastName"]) = 0
    /\ doubled = 2
    /\ initial[2].doubled = 1

\* The handles a storage honours, and its free list.
Shape(st) ==
    [slots |-> [j \in DOMAIN st.slots |->
                   [gen |-> st.slots[j].gen, occupied |-> st.slots[j].occupied]],
     free  |-> st.free]

\* The step belongs to a run: it calls one, or it is taken inside one.
StepOfRun == Running \/ (pc = "idle" /\ pc' \in {"run_lock", "run_rows"})

\* What a step of a run leaves as it is.
FrameOfRun ==
    StepOfRun =>
        /\ processes' = processes
        /\ entities' = entities
        /\ \A c \in CompKinds :
              /\ Shape(components'[c]) = Shape(components[c])
              /\ (\A m \in DOMAIN schema.procs[proc'].muts :
                      schema.procs[proc'].muts[m] # c)
                 => \A j \in DOMAIN components[c].slots :
                        components'[c].slots[j].value
                            = components[c].slots[j].value

\* C18 - Frame of a run: a run changes only values held in the storages of
\* the process's mutable parameters; every membership table, the entity
\* collection, the handles every component storage honours, and every value
\* of a storage the process takes immutably or not at all stay as they were.
C18_FrameOfRun == [][FrameOfRun]_vars

\* A run of a process with a mutable age and an immutable name has returned
\* after doubling the age of the entity added with 22.
C18_Witness ==
    /\ pc = "idle"
    /\ schema = MixedSchema
    /\ proc = "PDoubleAge"
    /\ log # <<>>
    /\ log[Len(log)].ev = "release"
    /\ Events("row") # {}
    /\ \E j \in DOMAIN components["CAge"].slots :
          /\ components["CAge"].slots[j].value = U32(44)
          /\ components["CName"].slots[j].value = "Jakob"

\* The component handles, each with its kind, that the rows of the i-th
\* entity hold.
CompHandles(i) ==
    UNION {LET pd  == schema.procs[Entity.procs[k]]
               row == processes[Entity.procs[k]].slots[entities[i][k].index].value
           IN  {[kind |-> (pd.muts \o pd.refs)[m], h |-> row[m]] : m \in DOMAIN row}
           : k \in DOMAIN Entity.procs}

\* No component handle is held by the rows of two entities, and no two rows
\* of one table hold the same handle for the same parameter.
NoSharedHandle ==
    /\ \A i, j \in DOMAIN entities :
           i # j => CompHandles(i) \cap CompHandles(j) = {}
    /\ \A p \in ProcKinds : \A a, b \in DOMAIN processes[p].slots :
           ( /\ a # b
             /\ processes[p].slots[a].occupied
             /\ processes[p].slots[b].occupied )
           => \A m \in DOMAIN processes[p].slots[a].value :
                  processes[p].slots[a].value[m] # processes[p].slots[b].value[m]

\* A step of a run changes no component value of an entity other than the
\* one whose row it visits.
NoForeignWrite ==
    Running =>
        \A j \in DOMAIN entities :
            entities[j][ProcIndex(proc)].index # cursor' =>
                \A e \in CompHandles(j) :
                    components'[e.kind].slots[e.h.index].value
                        = components[e.kind].slots[e.h.index].value

\* C19 - No aliasing between entities: no component handle appears in the
\* rows of two different entities, no two rows of a table hold the same
\* handle for the same parameter, and a run's write through the row of one
\* entity never changes a component value of another entity.
C19_NoAliasing == []NoSharedHandle /\ [][NoForeignWrite]_vars

\* PDoubleAge has visited the row of the first of two entities that were
\* both added with 22: the first holds 44, the second still 22.
C19_Witness ==
    /\ pc = "run_rows"
    /\ proc = "PDoubleAge"
    /\ Len(entities) = 2
    /\ cursor = entities[1][ProcIndex("PDoubleAge")].index
    /\ initial[1].data = initial[2].data
    /\ doubled = 0
    /\ AgeOf(1) = U32(44)
    /\ AgeOf(2) = U32(22)
====
